---- MODULE Spec2Model ----
(***************************************************************************)
(* d4prom: a one-shot collector.  main() runs three collectors in a fixed  *)
(* order (d4armory_health_check, world_state, live_event), each of which   *)
(* fetches one JSON endpoint through get_endpoint and writes gauges, and   *)
(* then pushes the registry once with push_to_gateway.                     *)
(*                                                                         *)
(* The upstream servers and the gateway are the environment: each HTTP     *)
(* attempt either fails at connection level or yields a response (status   *)
(* code and body), and the push either succeeds or raises.                 *)
(***************************************************************************)
EXTENDS Integers, Sequences, FiniteSets, TLC

VARIABLES
    pc,                          \* the call main() is at, or "done"
    exit,                        \* "running", "ok" (exit 0), "failed" (uncaught exception)
    attempts,                    \* HTTP attempts made by the session in the current s.get
    upstream,                    \* per endpoint, what s.get ended with ("none" before the call)
    req_counter,                 \* Counter children: label set -> value
    req_histogram,               \* Histogram children: label set -> number of observations
    d4armory_status_gauge,       \* Gauge children: service -> value
    world_state_gauge,           \* Gauge children: world_state -> value
    live_event_sno_gauge,        \* unlabelled Gauge value
    live_event_start_time_gauge, \* unlabelled Gauge value
    live_event_end_time_gauge,   \* unlabelled Gauge value
    setCalls,                    \* history: <<gauge, label>> of every completed Gauge.set
    log,                         \* records emitted through logging, in order
    pushes,                      \* number of push_to_gateway calls made
    pushResult,                  \* "none", "ok", "failed"
    order,                       \* the order in which main calls the collectors
    run,                         \* which run of the program this is (1 or 2)
    prev,                        \* the gauges the previous run ended with, and whether it pushed
    script                       \* per endpoint, the answer the upstream gives in every run
                                 \* ("none": any answer)

vars == <<pc, exit, attempts, upstream, req_counter, req_histogram,
          d4armory_status_gauge, world_state_gauge, live_event_sno_gauge,
          live_event_start_time_gauge, live_event_end_time_gauge,
          setCalls, log, pushes, pushResult, order, run, prev, script>>

\* What a single run of main neither reads nor writes.
rerunVars == <<order, run, prev, script>>

----------------------------------------------------------------------------
(* Bounds of the model *)

\* Longest world-state payload (number of entries) the upstream sends.
MaxEntries == 2

----------------------------------------------------------------------------
(* Program constants *)

\* Retry(total=5, ...): retries allowed after the first attempt.
RetryTotal == 5

\* URLs, kept as their components <<scheme, netloc host, netloc port, path>>;
\* none of the three URLs carries a port.
STATUS_ENDPOINT == <<"https", "d4armory.io", "", "/status">>
WORLD_STATE_ENDPOINT == <<"https", "d4armory.io", "", "/api/worldstate">>
LIVE_EVENT_ENDPOINT == <<"https", "d4armory.io", "", "/api/liveevent">>

Endpoints == {"status", "world", "live"}

Url(e) ==
    CASE e = "status" -> STATUS_ENDPOINT
      [] e = "world" -> WORLD_STATE_ENDPOINT
      [] e = "live" -> LIVE_EVENT_ENDPOINT

\* for service in ["character_service", "event_service"]
Services == <<"character_service", "event_service">>

\* the three keys live_event looks at, in the order it looks at them
LiveKeys == <<"liveEventSno", "liveEventStartTime", "liveEventEndTime">>

----------------------------------------------------------------------------
(* JSON values as the decoder hands them to the collectors *)

Absent == [k |-> "absent", n |-> 0]      \* the key is not in the object
JNull == [k |-> "null", n |-> 0]
JTrue == [k |-> "true", n |-> 1]
JFalse == [k |-> "false", n |-> 0]
JStr == [k |-> "str", n |-> 0]           \* a string that is not a number
JNum(n) == [k |-> "num", n |-> n]

\* float(value), as Gauge.set applies it: numbers and booleans convert,
\* None and non-numeric strings raise.
FloatOk(v) == v.k \in {"num", "true", "false"}
Float(v) == v.n

EmptyObj == <<>>

\* A body: t is "nonjson" (resp.json() raises), or the JSON type of the
\* decoded value; obj holds an object's fields, items a list's entries.
Body(t, obj, items) == [t |-> t, obj |-> obj, items |-> items]
NonJson == Body("nonjson", EmptyObj, <<>>)
NullBody == Body("null", EmptyObj, <<>>)
NumBody == Body("num", EmptyObj, <<>>)      \* a non-zero JSON number
EmptyList == Body("list", EmptyObj, <<>>)

Range(s) == {s[i] : i \in DOMAIN s}

\* status payloads: objects over the two service fields
StatusObjs ==
    {Body("obj", o, <<>>) : o \in [Range(Services) -> {Absent, JTrue, JFalse, JStr}]}
ErrorObjStatus == Body("obj", [s \in Range(Services) |-> Absent], <<>>)
StatusBodies == StatusObjs \cup {NonJson, NullBody, EmptyList}

\* world-state entries
NoKey == "<absent>"
Entry(t, ws, nv) == [t |-> t, ws |-> ws, nv |-> nv]
NumEntry == Entry("num", NoKey, Absent)     \* an entry that is a JSON number
StrEntry == Entry("str", NoKey, Absent)     \* an entry that is a string (or a dict key)
Entries ==
    { Entry("obj", "A", JNum(1)), Entry("obj", "A", JNum(2)),
      Entry("obj", "B", JNum(1)), Entry("obj", NoKey, Absent),
      Entry("obj", "A", JStr), NumEntry }
Lists(n) == UNION {[1..m -> Entries] : m \in 0..n}
WorldLists == {Body("list", EmptyObj, l) : l \in Lists(MaxEntries)}
\* iterating a JSON object yields its keys: {"error": ...}
ErrorObjWorld == Body("obj", EmptyObj, <<StrEntry>>)
WorldBodies == WorldLists \cup {NonJson, NullBody, NumBody, ErrorObjWorld}

\* live-event payloads
LiveObjs ==
    {Body("obj", o, <<>>) : o \in [Range(LiveKeys) -> {Absent, JNum(7), JNull}]}
ErrorObjLive == Body("obj", [k \in Range(LiveKeys) |-> Absent], <<>>)
LiveBodies == LiveObjs \cup {NonJson, NullBody, NumBody, EmptyList}

Bodies(e) ==
    CASE e = "status" -> StatusBodies
      [] e = "world" -> WorldBodies
      [] e = "live" -> LiveBodies

ErrorBodies(e) ==
    CASE e = "status" -> {NonJson, ErrorObjStatus}
      [] e = "world" -> {NonJson, ErrorObjWorld}
      [] e = "live" -> {NonJson, ErrorObjLive}

ErrorCodes == {404, 500}

\* What s.get(url) can end with: a response, or an exception once the
\* session has used up its attempts.
Outcome(kind, code, body) == [kind |-> kind, code |-> code, body |-> body]
NotCalled == Outcome("none", 0, NullBody)
Raised == Outcome("raised", 0, NullBody)
Responses(e) ==
    {Outcome("resp", 200, b) : b \in Bodies(e)}
        \cup {Outcome("resp", c, b) : c \in ErrorCodes, b \in ErrorBodies(e)}

----------------------------------------------------------------------------
(* get_endpoint *)

\* urlparse(url): scheme, hostname, port (None without one) and path
urlparse(url) ==
    [scheme |-> url[1], hostname |-> url[2],
     port |-> IF url[3] = "" THEN "None" ELSE url[3], path |-> url[4]]

\* The value of `status` when the finally block runs: resp.status_code after
\* a return from resp.json(), -1 after any exception (s.get or resp.json).
get_endpoint_status(o) ==
    IF o.kind = "resp" /\ o.body.t # "nonjson" THEN o.code ELSE -1

get_endpoint_labels(o, url) ==
    LET parsed_url == urlparse(url) IN
    [status |-> get_endpoint_status(o), method |-> "GET",
     scheme |-> parsed_url.scheme, host |-> parsed_url.hostname,
     port |-> parsed_url.port, path |-> parsed_url.path]

\* What get_endpoint returns: the decoded body, or None (no return statement
\* is reached) after an exception.  None and a JSON null are the same value.
get_endpoint(o) ==
    IF o.kind = "resp" /\ o.body.t # "nonjson" THEN o.body ELSE NullBody

\* The except clause missing: the exception of s.get or resp.json() reaches
\* the caller.
get_endpoint_raises_on_failure(o) ==
    o.kind = "raised" \/ (o.kind = "resp" /\ o.body.t = "nonjson")

\* Whether get_endpoint raises to its caller: `except Exception` catches
\* whatever s.get and resp.json() raise, and nothing is re-raised.
get_endpoint_raises(o) == FALSE

\* metric.labels(**labels).inc(1) / .observe(d): the child is created on
\* first use.
inc(m, l) == IF l \in DOMAIN m THEN [m EXCEPT ![l] = @ + 1] ELSE m @@ (l :> 1)

\* The increment written after resp.json() in the try block instead of in the
\* finally block: a call that raises is not counted.
get_endpoint_counter_in_try(c, o, url) ==
    IF get_endpoint_status(o) = -1 THEN c ELSE inc(c, get_endpoint_labels(o, url))

\* The counter increment of the finally block.
get_endpoint_counter(c, o, url) == inc(c, get_endpoint_labels(o, url))

\* The histogram observation: t.labels(**labels) in the finally block, then
\* the timer's exit observes the duration on that child.
get_endpoint_histogram(h, o, url) == inc(h, get_endpoint_labels(o, url))
----------------------------------------------------------------------------
(* Gauges and logging *)

\* g.labels(...): the child is created, with value 0, on first use.
labels(g, l) == IF l \in DOMAIN g THEN g ELSE g @@ (l :> 0)

\* set() adding to the value (inc) instead of overwriting it.
set_accumulating(g, l, v) == [labels(g, l) EXCEPT ![l] = @ + v]

\* set() that keeps the value of a child that already exists.
set_first_write_wins(g, l, v) == IF l \in DOMAIN g THEN g ELSE g @@ (l :> v)

\* g.labels(...).set(v) with a value float() accepts.
set(g, l, v) == [labels(g, l) EXCEPT ![l] = v]

LogRecord(level, fn, msg, arg) == [level |-> level, fn |-> fn, msg |-> msg, arg |-> arg]
\* logging.warning(f"Missing {key}: {data}")
MissingWarning(key) == LogRecord("WARNING", "live_event", "Missing", key)
\* logging.warning(f"Invalid world state info: {info}")
InvalidInfoWarning == LogRecord("WARNING", "world_state", "Invalid world state info", "")
\* logging.exception("Failed to get world state!")
WorldStateError == LogRecord("ERROR", "world_state", "Failed to get world state!", "")
\* logging.exception("Failed to get live event!")
LiveEventError == LogRecord("ERROR", "live_event", "Failed to get live event!", "")

----------------------------------------------------------------------------
(* d4armory_health_check *)

\* data.get(service, False) raises AttributeError unless data is a dict;
\* get_endpoint never raises, so the except branch (data = {}) is never taken
\* and the AttributeError is raised outside the try.
health_check_raises(data) == data.t # "obj"

\* The value tested for truth (`if data.get(service)`) instead of for
\* identity with True: any non-empty string counts as up.
health_check_value_truthy(data, service) ==
    IF data.obj[service].k \in {"true", "str"} THEN 1 ELSE 0

\* value = data.get(service, False) is True; set(1 if value else 0)
health_check_value(data, service) == IF data.obj[service] = JTrue THEN 1 ELSE 0

RECURSIVE health_check_loop(_, _, _)
health_check_loop(data, i, g) ==
    IF i > Len(Services) THEN g
    ELSE health_check_loop(data, i + 1,
                           set(g, Services[i], health_check_value(data, Services[i])))

\* try: data = get_endpoint(...) except Exception: data = {}
health_check_data(o) == IF get_endpoint_raises(o) THEN ErrorObjStatus ELSE get_endpoint(o)

----------------------------------------------------------------------------
(* world_state *)

\* The sequence `for info in (data or [])` iterates, and whether iter()
\* raises: None and [] give no entries, a list its entries, a dict its keys,
\* a non-zero number raises TypeError.
world_state_items(data) == IF data.t \in {"list", "obj"} THEN data.items ELSE <<>>
\* `for info in data` without `or []`: iterating None raises as well.
world_state_iter_raises_without_default(data) == data.t \in {"num", "null"}
world_state_iter_raises(data) == data.t = "num"

\* One pass of the loop body per entry; an exception leaves the loop.
\* st = [g, sets, log, raised].
RECURSIVE world_state_loop(_, _)
world_state_loop(items, st) ==
    IF items = <<>> THEN st
    ELSE LET info == Head(items) IN
         IF info.t = "num"
         THEN \* "worldState" in <int> raises TypeError
              [st EXCEPT !.raised = TRUE]
         ELSE IF info.t = "obj" /\ info.ws # NoKey /\ info.nv # Absent
         THEN IF FloatOk(info.nv)
              THEN world_state_loop(Tail(items),
                       [st EXCEPT !.g = set(st.g, info.ws, Float(info.nv)),
                                  !.sets = @ \cup {<<"world_state", info.ws>>}])
              ELSE \* labels() has created the child, then float() raises
                   [st EXCEPT !.g = labels(st.g, info.ws), !.raised = TRUE]
         ELSE world_state_loop(Tail(items),
                  [st EXCEPT !.log = Append(@, InvalidInfoWarning)])

\* The body of the try block after get_endpoint has returned data, and the
\* except block.
world_state_body(data, g, sets, lg) ==
    LET st0 == [g |-> g, sets |-> sets, log |-> lg, raised |-> FALSE]
        st1 == IF world_state_iter_raises(data)
               THEN [st0 EXCEPT !.raised = TRUE]
               ELSE world_state_loop(world_state_items(data), st0)
    IN  IF st1.raised THEN [st1 EXCEPT !.log = Append(@, WorldStateError)] ELSE st1

\* world_state as a whole: an exception of get_endpoint is handled by the
\* same except block.
world_state_try(o, g, sets, lg) ==
    IF get_endpoint_raises(o)
    THEN [g |-> g, sets |-> sets, log |-> Append(lg, WorldStateError), raised |-> TRUE]
    ELSE world_state_body(get_endpoint(o), g, sets, lg)

----------------------------------------------------------------------------
(* live_event *)

\* `key in data`: raises TypeError on None and on a number, is False on a
\* list that does not hold the key.
live_event_in_raises(data) == data.t \in {"null", "num"}
live_event_has(data, key) == data.t = "obj" /\ data.obj[key] # Absent

\* The three if/else statements in order; an exception leaves the try block.
\* st = [g, sets, log, raised], g the three gauges by key.
\* The gauge main passes for each key.
LiveGauge(key) ==
    CASE key = "liveEventSno" -> "live_event_sno"
      [] key = "liveEventStartTime" -> "live_event_start_time"
      [] key = "liveEventEndTime" -> "live_event_end_time"

RECURSIVE live_event_loop(_, _, _)
live_event_loop(data, i, st) ==
    IF i > Len(LiveKeys) THEN st
    ELSE LET key == LiveKeys[i] IN
         IF live_event_in_raises(data) THEN [st EXCEPT !.raised = TRUE]
         ELSE IF live_event_has(data, key)
         THEN IF FloatOk(data.obj[key])
              THEN live_event_loop(data, i + 1,
                       [st EXCEPT !.g[key] = Float(data.obj[key]),
                                  !.sets = @ \cup {<<LiveGauge(key), "">>}])
              ELSE [st EXCEPT !.raised = TRUE]
         ELSE live_event_loop(data, i + 1,
                  [st EXCEPT !.log = Append(@, MissingWarning(key))])

live_event_body(data, g, sets, lg) ==
    LET st0 == [g |-> g, sets |-> sets, log |-> lg, raised |-> FALSE]
        st1 == live_event_loop(data, 1, st0)
    IN  IF st1.raised THEN [st1 EXCEPT !.log = Append(@, LiveEventError)] ELSE st1

live_event_try(o, g, sets, lg) ==
    IF get_endpoint_raises(o)
    THEN [g |-> g, sets |-> sets, log |-> Append(lg, LiveEventError), raised |-> TRUE]
    ELSE live_event_body(get_endpoint(o), g, sets, lg)

----------------------------------------------------------------------------
(* The run *)

\* The calls of main, in the order of the source.
SourceOrder == <<"health", "world", "live">>

\* The state of a run when main has built its session and its registry.
Fresh ==
    /\ exit = "running"
    /\ attempts = 0
    /\ upstream = [e \in Endpoints |-> NotCalled]
    /\ req_counter = <<>>
    /\ req_histogram = <<>>
    /\ d4armory_status_gauge = <<>>
    /\ world_state_gauge = <<>>
    /\ live_event_sno_gauge = 0
    /\ live_event_start_time_gauge = 0
    /\ live_event_end_time_gauge = 0
    /\ setCalls = {}
    /\ log = <<>>
    /\ pushes = 0
    /\ pushResult = "none"

\* No previous run.
NoRun ==
    [status |-> <<>>, world |-> <<>>, sno |-> 0, start |-> 0, end |-> 0,
     pushed |-> FALSE]

Init ==
    /\ order = SourceOrder
    /\ run = 1
    /\ prev = NoRun
    /\ script = [e \in Endpoints |-> NotCalled]
    /\ pc = "health"
    /\ exit = "running"
    /\ attempts = 0
    /\ upstream = [e \in Endpoints |-> NotCalled]
    /\ req_counter = <<>>
    /\ req_histogram = <<>>
    /\ d4armory_status_gauge = <<>>
    /\ world_state_gauge = <<>>
    /\ live_event_sno_gauge = 0
    /\ live_event_start_time_gauge = 0
    /\ live_event_end_time_gauge = 0
    /\ setCalls = {}
    /\ log = <<>>
    /\ pushes = 0
    /\ pushResult = "none"

\* The endpoint the collector at pc fetches.
EndpointAt(p) ==
    CASE p = "health" -> "status"
      [] p = "world" -> "world"
      [] p = "live" -> "live"

\* The call that follows collector p in main.
After(p) ==
    LET i == CHOOSE j \in DOMAIN order : order[j] = p IN
    IF i = Len(order) THEN "push" ELSE order[i + 1]

\* The upstream may give answer o for endpoint e.
ScriptAllows(e, o) == script[e].kind = "none" \/ script[e] = o

\* One HTTP attempt of the session fails at connection level; the adapter
\* retries while the Retry budget lasts.
AttemptFails ==
    /\ pc \in {"health", "world", "live"}
    /\ attempts <= RetryTotal
    /\ attempts = RetryTotal => ScriptAllows(EndpointAt(pc), Raised)
    /\ attempts' = attempts + 1
    /\ UNCHANGED <<pc, exit, upstream, req_counter, req_histogram,
                   d4armory_status_gauge, world_state_gauge, live_event_sno_gauge,
                   live_event_start_time_gauge, live_event_end_time_gauge,
                   setCalls, log, pushes, pushResult>>
    /\ UNCHANGED rerunVars

\* A session without the retrying adapter: the first failed attempt raises.
SessionGet_without_retry(e) == IF attempts > 0 THEN {Raised} ELSE Responses(e)

\* What s.get(url) ends with: the exception once every attempt has failed,
\* else the response of the next attempt.  A response of any status code is
\* returned as it is (no status_forcelist, no raise_for_status).
SessionGet(e) == IF attempts > RetryTotal THEN {Raised} ELSE Responses(e)

\* The outcomes of s.get(url) the upstream allows.
Offered(e) == {o \in SessionGet(e) : ScriptAllows(e, o)}

\* get_endpoint's effects on the registry and the history of the call.
Fetched(e, o) ==
    /\ upstream' = [upstream EXCEPT ![e] = o]
    /\ req_counter' = get_endpoint_counter(req_counter, o, Url(e))
    /\ req_histogram' = get_endpoint_histogram(req_histogram, o, Url(e))
    /\ attempts' = 0

\* The collector with the fallback its except branch was written for: after
\* a failed fetch data is {} and both gauges are set to 0.
d4armory_health_check_default_empty ==
    /\ pc = "health"
    /\ \E o \in Offered("status") :
         LET data == IF get_endpoint_raises_on_failure(o) THEN ErrorObjStatus
                     ELSE get_endpoint(o) IN
         /\ Fetched("status", o)
         /\ IF health_check_raises(data)
            THEN /\ pc' = "done"
                 /\ exit' = "failed"
                 /\ UNCHANGED <<d4armory_status_gauge, setCalls>>
            ELSE /\ d4armory_status_gauge' = health_check_loop(data, 1, d4armory_status_gauge)
                 /\ setCalls' = setCalls \cup {<<"d4armory_status", s>> : s \in Range(Services)}
                 /\ pc' = After("health")
                 /\ UNCHANGED exit
    /\ UNCHANGED <<world_state_gauge, live_event_sno_gauge, live_event_start_time_gauge,
                   live_event_end_time_gauge, log, pushes, pushResult>>
    /\ UNCHANGED rerunVars

d4armory_health_check ==
    /\ pc = "health"
    /\ \E o \in Offered("status") :
         LET data == health_check_data(o) IN
         /\ Fetched("status", o)
         /\ IF health_check_raises(data)
            THEN \* the AttributeError leaves main: no further call is made
                 /\ pc' = "done"
                 /\ exit' = "failed"
                 /\ UNCHANGED <<d4armory_status_gauge, setCalls>>
            ELSE /\ d4armory_status_gauge' = health_check_loop(data, 1, d4armory_status_gauge)
                 /\ setCalls' = setCalls \cup {<<"d4armory_status", s>> : s \in Range(Services)}
                 /\ pc' = After("health")
                 /\ UNCHANGED exit
    /\ UNCHANGED <<world_state_gauge, live_event_sno_gauge, live_event_start_time_gauge,
                   live_event_end_time_gauge, log, pushes, pushResult>>
    /\ UNCHANGED rerunVars

world_state ==
    /\ pc = "world"
    /\ \E o \in Offered("world") :
         LET st == world_state_try(o, world_state_gauge, setCalls, log) IN
         /\ Fetched("world", o)
         /\ world_state_gauge' = st.g
         /\ setCalls' = st.sets
         /\ log' = st.log
    /\ pc' = After("world")
    /\ UNCHANGED <<exit, d4armory_status_gauge, live_event_sno_gauge,
                   live_event_start_time_gauge, live_event_end_time_gauge,
                   pushes, pushResult>>
    /\ UNCHANGED rerunVars

live_event ==
    /\ pc = "live"
    /\ \E o \in Offered("live") :
         LET g0 == (LiveKeys[1] :> live_event_sno_gauge)
                       @@ (LiveKeys[2] :> live_event_start_time_gauge)
                       @@ (LiveKeys[3] :> live_event_end_time_gauge)
             st == live_event_try(o, g0, setCalls, log)
         IN
         /\ Fetched("live", o)
         /\ live_event_sno_gauge' = st.g[LiveKeys[1]]
         /\ live_event_start_time_gauge' = st.g[LiveKeys[2]]
         /\ live_event_end_time_gauge' = st.g[LiveKeys[3]]
         /\ setCalls' = st.sets
         /\ log' = st.log
    /\ pc' = After("live")
    /\ UNCHANGED <<exit, d4armory_status_gauge, world_state_gauge, pushes, pushResult>>
    /\ UNCHANGED rerunVars

\* The push wrapped in a retry loop: a failed push is tried again.
push_to_gateway_retried ==
    /\ pc = "push"
    /\ \E ok \in BOOLEAN :
         /\ pushResult' = IF ok THEN "ok" ELSE "failed"
         /\ exit' = IF ok THEN "ok" ELSE exit
         /\ pc' = IF ok THEN "done" ELSE "push"
    /\ pushes' = pushes + 1
    /\ UNCHANGED <<attempts, upstream, req_counter, req_histogram,
                   d4armory_status_gauge, world_state_gauge, live_event_sno_gauge,
                   live_event_start_time_gauge, live_event_end_time_gauge,
                   setCalls, log>>
    /\ UNCHANGED rerunVars

\* The push written before the call of live_event.
push_to_gateway_before_live_event ==
    /\ pc = "live"
    /\ pushes = 0
    /\ \E ok \in BOOLEAN : pushResult' = IF ok THEN "ok" ELSE "failed"
    /\ pushes' = pushes + 1
    /\ UNCHANGED <<pc, exit, attempts, upstream, req_counter, req_histogram,
                   d4armory_status_gauge, world_state_gauge, live_event_sno_gauge,
                   live_event_start_time_gauge, live_event_end_time_gauge,
                   setCalls, log>>
    /\ UNCHANGED rerunVars

\* push_to_gateway(...) is the last statement of main: it returns (exit 0)
\* or raises, and the exception leaves main.
push_to_gateway ==
    /\ pc = "push"
    /\ \E ok \in BOOLEAN :
         /\ pushResult' = IF ok THEN "ok" ELSE "failed"
         /\ exit' = IF ok THEN "ok" ELSE "failed"
    /\ pushes' = pushes + 1
    /\ pc' = "done"
    /\ UNCHANGED <<attempts, upstream, req_counter, req_histogram,
                   d4armory_status_gauge, world_state_gauge, live_event_sno_gauge,
                   live_event_start_time_gauge, live_event_end_time_gauge,
                   setCalls, log>>
    /\ UNCHANGED rerunVars

main ==
    \/ d4armory_health_check
    \/ world_state
    \/ live_event
    \/ push_to_gateway

Next == AttemptFails \/ main

Spec == Init /\ [][Next]_vars

----------------------------------------------------------------------------
(* Two runs against the same upstream answers *)

\* A few answers per endpoint: a payload, failures, malformed payloads.
ScriptedOutcomes(e) ==
    CASE e = "status" ->
             { Outcome("resp", 200, Body("obj", [s \in Range(Services) |->
                   IF s = "character_service" THEN JTrue ELSE JFalse], <<>>)),
               Outcome("resp", 200, NullBody), Outcome("resp", 200, NonJson),
               Outcome("resp", 404, ErrorObjStatus), Raised }
      [] e = "world" ->
             { Outcome("resp", 200, Body("list", EmptyObj,
                   <<Entry("obj", "A", JNum(1)), Entry("obj", "A", JNum(2))>>)),
               Outcome("resp", 200, Body("list", EmptyObj,
                   <<Entry("obj", "A", JStr), Entry("obj", "B", JNum(1))>>)),
               Outcome("resp", 200, NumBody), Outcome("resp", 200, NonJson), Raised }
      [] e = "live" ->
             { Outcome("resp", 200, Body("obj", [k \in Range(LiveKeys) |-> JNum(7)], <<>>)),
               Outcome("resp", 200, Body("obj", [k \in Range(LiveKeys) |->
                   IF k = "liveEventSno" THEN JNull ELSE JNum(7)], <<>>)),
               Outcome("resp", 200, NonJson), Raised }

Orders(q) ==
    {p \in [DOMAIN q -> Range(q)] : \A x \in Range(q) : \E i \in DOMAIN p : p[i] = x}

\* The upstream answers are fixed for both runs.
InitTwice ==
    /\ order = SourceOrder
    /\ run = 1
    /\ prev = NoRun
    /\ script \in [Endpoints -> UNION {ScriptedOutcomes(e) : e \in Endpoints}]
    /\ \A e \in Endpoints : script[e] \in ScriptedOutcomes(e)
    /\ pc = "health"
    /\ Fresh

\* The program is run again: main builds a new session and a new registry.
\* The second run calls the collectors in any order.
Rerun ==
    /\ pc = "done"
    /\ run = 1
    /\ run' = 2
    /\ prev' = [status |-> d4armory_status_gauge, world |-> world_state_gauge,
                sno |-> live_event_sno_gauge, start |-> live_event_start_time_gauge,
                end |-> live_event_end_time_gauge, pushed |-> pushes >= 1]
    /\ order' \in Orders(SourceOrder)
    /\ pc' = order'[1]
    /\ exit' = "running"
    /\ attempts' = 0
    /\ upstream' = [e \in Endpoints |-> NotCalled]
    /\ req_counter' = <<>>
    /\ req_histogram' = <<>>
    /\ d4armory_status_gauge' = <<>>
    /\ world_state_gauge' = <<>>
    /\ live_event_sno_gauge' = 0
    /\ live_event_start_time_gauge' = 0
    /\ live_event_end_time_gauge' = 0
    /\ setCalls' = {}
    /\ log' = <<>>
    /\ pushes' = 0
    /\ pushResult' = "none"
    /\ UNCHANGED script

NextTwice == AttemptFails \/ main \/ Rerun

SpecTwice == InitTwice /\ [][NextTwice]_vars
----------------------------------------------------------------------------
(* Properties *)

\* get_endpoint has been called for the endpoint.
Invoked(e) == upstream[e].kind # "none"

\* The fetch or the decoding failed: s.get raised, or the body is not JSON.
FetchFailed(e) ==
    \/ upstream[e].kind = "raised"
    \/ upstream[e].kind = "resp" /\ upstream[e].body.t = "nonjson"

\* The endpoint answered 200 with a payload of the expected shape.
Succeeded(e) ==
    /\ upstream[e].kind = "resp"
    /\ upstream[e].code = 200
    /\ upstream[e].body.t = (IF e = "world" THEN "list" ELSE "obj")

RECURSIVE Total(_)
Total(m) ==
    IF DOMAIN m = {} THEN 0
    ELSE LET l == CHOOSE x \in DOMAIN m : TRUE
         IN  m[l] + Total([x \in DOMAIN m \ {l} |-> m[x]])

\* The children of a metric whose labels are those of the endpoint's URL.
ChildrenOf(m, e) ==
    LET u == urlparse(Url(e)) IN
    {l \in DOMAIN m : /\ l.method = "GET" /\ l.scheme = u.scheme
                      /\ l.host = u.hostname /\ l.port = u.port /\ l.path = u.path}

CountOf(m, e) == Total([l \in ChildrenOf(m, e) |-> m[l]])

LogsOf(fn) == {i \in DOMAIN log : log[i].fn = fn}

CollectorOf(e) ==
    CASE e = "status" -> "d4armory_health_check"
      [] e = "world" -> "world_state"
      [] e = "live" -> "live_event"

\* The gauge samples the collector of an endpoint has created or set.
SamplesOf(e) ==
    CASE e = "status" -> {<<"d4armory_status", s>> : s \in DOMAIN d4armory_status_gauge}
                            \cup {c \in setCalls : c[1] = "d4armory_status"}
      [] e = "world" -> {<<"world_state", w>> : w \in DOMAIN world_state_gauge}
                            \cup {c \in setCalls : c[1] = "world_state"}
      [] e = "live" -> {c \in setCalls : c[1] \in {LiveGauge(k) : k \in Range(LiveKeys)}}

\* C1: a failure of one collector never aborts the run: when the run has
\* ended, all three collectors have been executed and the push has been
\* performed, whatever each endpoint answered.
C1_AllCollectorsRunThenPush ==
    pc = "done" => (\A e \in Endpoints : Invoked(e)) /\ pushes = 1

\* C2: the outcome of the run reflects solely the push: the run ends in
\* failure if and only if push_to_gateway failed, and a successful push ends
\* the run successfully.
C2_ExitReflectsPushOnly ==
    pc = "done" => /\ (exit = "failed") <=> (pushResult = "failed")
                   /\ (exit = "ok") <=> (pushResult = "ok")

\* C3: the push is attempted at most once per run and never retried: after
\* a failed push the run has ended in failure with exactly one push made.
C3_PushAtMostOnce ==
    /\ pushes <= 1
    /\ pushResult = "failed" => pc = "done" /\ exit = "failed" /\ pushes = 1

\* C3 witness: the push failed after all three collectors succeeded.
C3_Witness ==
    /\ pushResult = "failed"
    /\ pushes = 1
    /\ \A e \in Endpoints : Succeeded(e)

\* C4: every call of get_endpoint, returning a payload or not, increments
\* the counter once and records one histogram observation under the same
\* labels (method GET and the components of the endpoint's URL); after k
\* collectors were invoked both totals are k.
C4_OneIncrementOneObservation ==
    /\ DOMAIN req_histogram = DOMAIN req_counter
    /\ \A l \in DOMAIN req_counter : req_histogram[l] = req_counter[l]
    /\ \A l \in DOMAIN req_counter : \E e \in Endpoints : l \in ChildrenOf(req_counter, e)
    /\ \A e \in Endpoints :
         /\ CountOf(req_counter, e) = (IF Invoked(e) THEN 1 ELSE 0)
         /\ CountOf(req_histogram, e) = (IF Invoked(e) THEN 1 ELSE 0)
    /\ Total(req_counter) = Cardinality({e \in Endpoints : Invoked(e)})
    /\ Total(req_histogram) = Cardinality({e \in Endpoints : Invoked(e)})

\* C4 witness: a finished run of three calls, one that raised, one that got a
\* body that is not JSON and one that returned a payload.
C4_Witness ==
    /\ pc = "done"
    /\ \A e \in Endpoints : Invoked(e)
    /\ upstream["world"].kind = "raised"
    /\ upstream["live"].kind = "resp" /\ upstream["live"].body.t = "nonjson"
    /\ Succeeded("status")
    /\ Total(req_counter) = 3

\* C5: the status label is the HTTP status code whenever a response was
\* obtained (also when its body is not JSON), and -1 only when the call
\* raised before any response.
C5_StatusLabelIsResponseCode ==
    \A e \in Endpoints :
        Invoked(e) =>
            \A l \in ChildrenOf(req_counter, e) :
                l.status = (IF upstream[e].kind = "resp" THEN upstream[e].code ELSE -1)

\* A world-state entry that has both keys and a numeric nValue.
ValidEntry(info) == info.t = "obj" /\ info.ws # NoKey /\ info.nv.k = "num"

\* C6: for every world-state payload that is a sequence, every valid entry
\* sets the gauge of its identifier and every malformed entry produces one
\* warning, so a malformed entry never stops later entries being recorded.
C6_WorldStatePerEntryRecovery ==
    (upstream["world"].kind = "resp" /\ upstream["world"].body.t = "list") =>
        LET items == upstream["world"].body.items IN
        /\ \A i \in DOMAIN items :
               ValidEntry(items[i]) =>
                   /\ <<"world_state", items[i].ws>> \in setCalls
                   /\ items[i].ws \in DOMAIN world_state_gauge
        /\ Cardinality({i \in LogsOf("world_state") : log[i] = InvalidInfoWarning})
               = Cardinality({i \in DOMAIN items : ~ValidEntry(items[i])})

\* C7: for every live-event payload that is an object the three keys are
\* handled independently: a present key (with a value a gauge can take) sets
\* its own gauge and is not warned about, an absent key leaves its gauge
\* untouched and produces exactly one warning naming it, whatever the other
\* keys are.
C7_LiveEventKeysIndependent ==
    (upstream["live"].kind = "resp" /\ upstream["live"].body.t = "obj") =>
        \A k \in Range(LiveKeys) :
            LET v == upstream["live"].body.obj[k]
                warned == {i \in LogsOf("live_event") : log[i] = MissingWarning(k)}
            IN  IF v # Absent
                THEN /\ FloatOk(v) => <<LiveGauge(k), "">> \in setCalls
                     /\ warned = {}
                ELSE /\ <<LiveGauge(k), "">> \notin setCalls
                     /\ Cardinality(warned) = 1

\* The value of the gauge main passes for a live-event key.
LiveGaugeValue(k) ==
    CASE k = "liveEventSno" -> live_event_sno_gauge
      [] k = "liveEventStartTime" -> live_event_start_time_gauge
      [] k = "liveEventEndTime" -> live_event_end_time_gauge

\* C8: a present live-event field whose value fails validation suppresses
\* only its own gauge update: every other field of the payload that is
\* present and valid is recorded.
C8_InvalidFieldSuppressesOnlyItself ==
    (upstream["live"].kind = "resp" /\ upstream["live"].body.t = "obj") =>
        \A k \in Range(LiveKeys) :
            LET v == upstream["live"].body.obj[k] IN
            (v # Absent /\ FloatOk(v)) =>
                /\ <<LiveGauge(k), "">> \in setCalls
                /\ LiveGaugeValue(k) = Float(v)

\* C9: a 4xx response or a body that is not JSON reaches the collector as a
\* fetch failure, never as a payload: the collector derives no gauge sample
\* from such a response.
C9_ErrorResponseIsNeverPayload ==
    \A e \in Endpoints :
        (/\ upstream[e].kind = "resp"
         /\ \/ upstream[e].code \in 400..499
            \/ upstream[e].body.t = "nonjson") => SamplesOf(e) = {}

\* The collector of the endpoint has returned to main.
Returned(e) ==
    CASE e = "status" -> (Invoked("status") /\ pc # "done") \/ Invoked("world")
      [] e = "world" -> Invoked("world")
      [] e = "live" -> Invoked("live")

\* C10: whenever a collector's fetch or decode fails, the collector catches
\* the failure (it returns to main) and emits at least one log record.
C10_FetchFailureLogged ==
    \A e \in Endpoints :
        (Invoked(e) /\ FetchFailed(e)) =>
            /\ Returned(e)
            /\ LogsOf(CollectorOf(e)) # {}

\* C11: a world-state payload of null or an empty sequence is zero entries:
\* world_state makes no gauge update, emits no log record of any level and
\* returns to main.
C11_NullOrEmptyIsZeroEntries ==
    (/\ upstream["world"].kind = "resp"
     /\ \/ upstream["world"].body.t = "null"
        \/ upstream["world"].body.t = "list" /\ upstream["world"].body.items = <<>>) =>
        /\ SamplesOf("world") = {}
        /\ LogsOf("world_state") = {}
        /\ pc \in {"live", "push", "done"}
        /\ pc = "done" => pushes = 1

\* C11 witness: world_state has returned after a null payload.
C11_Witness ==
    /\ upstream["world"].kind = "resp"
    /\ upstream["world"].body.t = "null"
    /\ pc = "live"

\* C12: for every status payload that is an object, each service gauge is 1
\* if and only if the field is present and is the boolean true, and 0
\* otherwise (absent, false, any other value), and nothing is logged.
C12_StatusGaugeIsOneIffTrue ==
    (upstream["status"].kind = "resp" /\ upstream["status"].body.t = "obj") =>
        /\ DOMAIN d4armory_status_gauge = Range(Services)
        /\ \A s \in Range(Services) :
               /\ d4armory_status_gauge[s] \in {0, 1}
               /\ d4armory_status_gauge[s] = 1 <=> upstream["status"].body.obj[s].k = "true"
               /\ <<"d4armory_status", s>> \in setCalls
        /\ LogsOf("d4armory_health_check") = {}
        /\ \A i \in DOMAIN log : log[i].fn # "d4armory_health_check"

\* C12 witness: one service true, the other a non-boolean value.
C12_Witness ==
    /\ upstream["status"].kind = "resp"
    /\ upstream["status"].body.t = "obj"
    /\ upstream["status"].body.obj["character_service"] = JTrue
    /\ upstream["status"].body.obj["event_service"] = JStr
    /\ d4armory_status_gauge = [s \in Range(Services) |-> IF s = "character_service" THEN 1 ELSE 0]

registry ==
    <<req_counter, req_histogram, d4armory_status_gauge, world_state_gauge,
      live_event_sno_gauge, live_event_start_time_gauge, live_event_end_time_gauge,
      setCalls>>

\* C14: the registry is never mutated once the push begins: the push is made
\* only after all three collectors have returned, and no gauge set, counter
\* increment or histogram observation happens during or after it.
C14_RegistryFrozenAtPush ==
    /\ [](pushes >= 1 => \A e \in Endpoints : Invoked(e) /\ Returned(e))
    /\ [][(pc = "push" \/ pushes >= 1) => UNCHANGED registry]_vars

\* C14 witness: a push made after the collectors wrote to the registry.
C14_Witness ==
    /\ pushes = 1
    /\ setCalls # {}
    /\ Total(req_counter) = 3
    /\ DOMAIN world_state_gauge # {}

\* The gauges, with the history of set calls.
gauges ==
    <<d4armory_status_gauge, world_state_gauge, live_event_sno_gauge,
      live_event_start_time_gauge, live_event_end_time_gauge, setCalls>>

\* C17: a collector whose fetch fails writes no gauge sample at all, neither
\* its own nor one of another collector.
C17_FailedFetchWritesNoGauge ==
    /\ [](\A e \in Endpoints : (Invoked(e) /\ FetchFailed(e)) => SamplesOf(e) = {})
    /\ [][\A e \in Endpoints :
            (upstream[e].kind = "none" /\ upstream'[e].kind # "none"
                 /\ (upstream'[e].kind = "raised" \/ upstream'[e].body.t = "nonjson"))
                => UNCHANGED gauges]_vars

\* C17 witness: the world-state fetch failed after the status collector had
\* set its gauges, then the live-event fetch failed.
C17_Witness ==
    /\ upstream["world"].kind = "raised"
    /\ upstream["live"].kind = "resp" /\ upstream["live"].body.t = "nonjson"
    /\ DOMAIN d4armory_status_gauge = Range(Services)

\* A world-state entry on which the loop body raises.
RaisingEntry(info) ==
    \/ info.t = "num"
    \/ info.t = "obj" /\ info.ws # NoKey /\ info.nv # Absent /\ ~FloatOk(info.nv)

\* The entries the loop has processed: those before the first raising one.
ProcessedEntries(items) ==
    {i \in DOMAIN items : \A j \in 1..i : ~RaisingEntry(items[j])}

Max(S) == CHOOSE x \in S : \A y \in S : y <= x

\* C18: the world_state gauge is last-write-wins per identifier: its value is
\* the nValue of the last valid entry processed for that identifier, and an
\* identifier with no valid entry processed has never been set.
C18_LastWriteWins ==
    (upstream["world"].kind = "resp" /\ upstream["world"].body.t = "list") =>
        LET items == upstream["world"].body.items IN
        \A id \in {"A", "B"} :
            LET writes == {i \in ProcessedEntries(items) :
                               ValidEntry(items[i]) /\ items[i].ws = id}
            IN  IF writes # {}
                THEN /\ id \in DOMAIN world_state_gauge
                     /\ world_state_gauge[id] = items[Max(writes)].nv.n
                ELSE <<"world_state", id>> \notin setCalls

\* C18 witness: two valid entries for the same identifier.
C18_Witness ==
    /\ upstream["world"].kind = "resp"
    /\ upstream["world"].body.items
           = <<Entry("obj", "A", JNum(1)), Entry("obj", "A", JNum(2))>>
    /\ world_state_gauge["A"] = 2

\* What a collector does with None.
NoneBehaviour(e) ==
    CASE e = "status" -> /\ pc = "done" /\ exit = "failed" /\ pushes = 0
                         /\ ~Invoked("world") /\ ~Invoked("live")
      [] e = "world" -> LogsOf("world_state") = {}
      [] e = "live" -> \A i \in LogsOf("live_event") : log[i] = LiveEventError

\* C19: get_endpoint never propagates an exception: after a failed GET or
\* decoding it has recorded the counter and the histogram once and returned
\* None, so the collector does exactly what it does for a JSON null body.
C19_FailureReturnsNone ==
    \A e \in Endpoints :
        (Invoked(e) /\ (FetchFailed(e) \/ upstream[e].body.t = "null")) =>
            /\ CountOf(req_counter, e) = 1
            /\ CountOf(req_histogram, e) = 1
            /\ SamplesOf(e) = {}
            /\ NoneBehaviour(e)
            /\ e = "live" => Cardinality(LogsOf("live_event")) = 1

\* C19 witness: one fetch that raised and one body that is not JSON.
C19_Witness ==
    /\ upstream["world"].kind = "raised"
    /\ upstream["live"].kind = "resp" /\ upstream["live"].body.t = "nonjson"
    /\ pc = "push"

\* The gauges a run has ended with, and whether it pushed.
RunResult ==
    [status |-> d4armory_status_gauge, world |-> world_state_gauge,
     sno |-> live_event_sno_gauge, start |-> live_event_start_time_gauge,
     end |-> live_event_end_time_gauge, pushed |-> pushes >= 1]

\* C15: the order of the collectors has no effect: for every combination of
\* upstream answers, a run in any order ends with the same gauge values and
\* the same decision to push as the run in the order of the source.
C15_OrderHasNoEffect ==
    (run = 2 /\ pc = "done") => RunResult = prev

\* The values the payloads of this run hold for a gauge sample.
PayloadValues(e, label) ==
    IF upstream[e].kind # "resp" THEN {}
    ELSE CASE e = "world" ->
                  LET items == upstream[e].body.items IN
                  {Float(items[i].nv) : i \in {j \in DOMAIN items :
                       items[j].ws = label /\ FloatOk(items[j].nv)}}
           [] e = "live" ->
                  IF upstream[e].body.t = "obj" /\ FloatOk(upstream[e].body.obj[label])
                  THEN {Float(upstream[e].body.obj[label])} ELSE {}
           [] e = "status" -> {0, 1}

\* C16: running main twice against the same upstream answers ends with the
\* same gauge values, and a gauge value is always one value that was written
\* (or the initial 0), never a sum of updates.
C16_Idempotent ==
    /\ (run = 2 /\ pc = "done" /\ order = SourceOrder) =>
           [RunResult EXCEPT !.pushed = FALSE] = [prev EXCEPT !.pushed = FALSE]
    /\ \A id \in DOMAIN world_state_gauge :
           world_state_gauge[id] \in {0} \cup PayloadValues("world", id)
    /\ \A k \in Range(LiveKeys) :
           LiveGaugeValue(k) \in {0} \cup PayloadValues("live", k)
    /\ \A sv \in DOMAIN d4armory_status_gauge :
           d4armory_status_gauge[sv] \in PayloadValues("status", sv)

\* C16 witness: the second run has ended after writing the same identifier
\* twice, as the first did.
C16_Witness ==
    /\ run = 2
    /\ pc = "done"
    /\ order = SourceOrder
    /\ pushes = 1
    /\ upstream["world"].body.items
           = <<Entry("obj", "A", JNum(1)), Entry("obj", "A", JNum(2))>>
    /\ world_state_gauge["A"] = 2
    /\ prev.world = world_state_gauge
    /\ live_event_sno_gauge = 7

====
